---- MODULE Spec2Model ----
(***************************************************************************)
(* GeoSketch-OSM: the overlap resolution engine (polygonUtils.ts), the     *)
(* versioned feature store (featureStore.ts), the validation hook          *)
(* (useOverlapValidation.ts), the drawing handlers (useDrawing.ts) and the *)
(* import button (ImportButton.tsx).                                       *)
(*                                                                         *)
(* Geometry is modelled on a finite grid: a polygonal geometry is the set  *)
(* of grid cells it covers, every cell has a fixed area, and the clipping  *)
(* primitives of turf (intersect, difference, area) are the set operations *)
(* on cells.  Cell 1 is a sliver (area 1); every other cell has area 200,  *)
(* so that the 0.99 containment ratio differs from exact containment.      *)
(*                                                                         *)
(* The store's error and toasts fields are left out: the handlers write    *)
(* them for display, and no operation reads them.                          *)
(***************************************************************************)
EXTENDS Integers, Sequences, FiniteSets, TLC

\* ------------------------------------------------------------------ bounds
NumCells == 4          \* cells of the grid
MaxExisting == 2       \* features in the set a probe of the engine runs against
MaxOps == 3            \* operations of one run
MaxEditLayers == 2     \* layers of one edit or delete event
MaxFileLen == 2        \* features of one imported file
MaxUndos == 2          \* undos in a row that are followed by as many redos

\* ------------------------------------------------------- program constants
MAX_HISTORY_LENGTH == 50

\* Caps one too high (a faulty variant of shapeLimits)
shapeLimitsRaised == [polygon |-> 11, rectangle |-> 6, circle |-> 6, line |-> 21]

shapeLimits == [polygon |-> 10, rectangle |-> 5, circle |-> 5, line |-> 20]

ShapeType == {"polygon", "rectangle", "circle", "line"}

\* undefined and null, as a string (an error, a name), a geometry and a feature id
Undefined == "undefined"
Null == [type |-> "null", cells |-> {}]
UndefinedGeometry == [type |-> "undefined", cells |-> {}]
NoId == 0

ErrContained == "Cannot create a polygon that is fully contained within an existing polygon."
ErrContains == "Cannot create a polygon that fully contains an existing polygon."
ErrRemoved == "Polygon would be completely removed after trimming overlaps."

\* ---------------------------------------------------------------- geometry
Cells == 1..NumCells

\* Cell 1 is a sliver and cell 0, beside the grid, a narrow cell; every other
\* cell is a full one.
CellArea(c) == IF c = 1 THEN 1 ELSE IF c = 0 THEN 50 ELSE 200

RECURSIVE SumArea(_)
SumArea(cells) ==
  IF cells = {} THEN 0
  ELSE LET c == CHOOSE x \in cells : TRUE
       IN CellArea(c) + SumArea(cells \ {c})

\* A cell set is one ring when its cells are consecutive on the grid.
Connected(cells) == \A a \in cells, b \in cells : \A c \in a..b : c \in cells

\* The GeoJSON geometry covering `cells`.
PolygonGeometry(cells) ==
  [type |-> IF Connected(cells) THEN "Polygon" ELSE "MultiPolygon", cells |-> cells]

LineGeometry(cells) == [type |-> "LineString", cells |-> cells]

\* turf.area of a polygon feature
turfArea(poly) == SumArea(poly.cells)

\* turf.intersect: null when the two polygons share no area
turfIntersect(a, b) ==
  IF a.cells \cap b.cells = {} THEN Null ELSE PolygonGeometry(a.cells \cap b.cells)

\* A difference that cuts nothing away (a faulty variant of turf.difference)
turfDifferenceKeepsAll(a, b) == a

\* Variant for C26: a difference that returns only the first of the pieces
\* that are left
turfDifferenceFirstPiece(a, b) ==
  LET left == a.cells \ b.cells
      first == CHOOSE c \in left : \A d \in left : c <= d
  IN IF left = {} THEN Null
     ELSE PolygonGeometry({c \in left : \A d \in first..c : d \in left})

\* turf.difference: null when nothing of a is left
turfDifference(a, b) ==
  IF a.cells \ b.cells = {} THEN Null ELSE PolygonGeometry(a.cells \ b.cells)

isPolygonalShape(shapeType) == shapeType \in {"polygon", "rectangle", "circle"}

\* A conversion that takes every geometry for a polygon (a faulty variant)
getPolygonFromAnyGeometry(geometry) == geometry

\* A Polygon geometry whose ring has fewer positions than a closed ring needs:
\* it covers no cell
BadRing == [type |-> "Polygon", cells |-> {}]

\* The outcome of a call that throws
Thrown == [type |-> "thrown", cells |-> {}]

\* turf.polygon throws on a ring of fewer than four positions; turf.multiPolygon
\* does not look at its rings
getPolygonFromGeometry(geometry) ==
  IF geometry.type = "Polygon"
  THEN IF geometry = BadRing THEN Thrown ELSE geometry
  ELSE IF geometry.type = "MultiPolygon" THEN geometry
  ELSE Null

calculateArea(geometry) ==
  LET polygon == getPolygonFromGeometry(geometry)
  IN IF polygon = Null THEN 0 ELSE turfArea(polygon)

calculateLength(geometry) ==
  IF geometry.type = "LineString" THEN Cardinality(geometry.cells) ELSE 0

\* ------------------------------------------------------------------ engine
\* Exact containment in place of the 0.99 ratio (a faulty variant)
RatioIsOne(intersectionArea, area) == intersectionArea >= area

\* intersectionArea / area > 0.99
RatioAbove(intersectionArea, area) == 100 * intersectionArea > 99 * area

Accepted(currentPolygon, wasTrimmed) ==
  [isValid |-> TRUE,
   trimmedGeometry |-> IF wasTrimmed THEN currentPolygon ELSE Null,
   error |-> Undefined]

Rejected(error) ==
  [isValid |-> FALSE, trimmedGeometry |-> UndefinedGeometry, error |-> error]

\* No ValidationResult: the call has thrown
Raised == [thrown |-> TRUE]

IsRaised(result) == "thrown" \in DOMAIN result

\* Variant for C25: a loop that trims where the candidate contains the
\* existing polygon instead of stopping with a rejection
RECURSIVE OverlapLoopTrimsOn(_, _, _, _)
OverlapLoopTrimsOn(currentPolygon, wasTrimmed, existingPolygons, i) ==
  IF i > Len(existingPolygons) THEN Accepted(currentPolygon, wasTrimmed)
  ELSE
    LET existing == existingPolygons[i]
        intersection == turfIntersect(currentPolygon, existing)
    IN IF intersection = Null
       THEN OverlapLoopTrimsOn(currentPolygon, wasTrimmed, existingPolygons, i + 1)
       ELSE
         LET currentArea == turfArea(currentPolygon)
             intersectionArea == turfArea(intersection)
             difference == turfDifference(currentPolygon, existing)
         IN IF RatioAbove(intersectionArea, currentArea) THEN Rejected(ErrContained)
            ELSE IF difference = Null THEN Rejected(ErrRemoved)
            ELSE OverlapLoopTrimsOn(difference, TRUE, existingPolygons, i + 1)

\* Variant for C27: a loop that always trims, without the containment tests
\* and without the test of an empty difference
RECURSIVE OverlapLoopAlwaysTrims(_, _, _, _)
OverlapLoopAlwaysTrims(currentPolygon, wasTrimmed, existingPolygons, i) ==
  IF i > Len(existingPolygons) THEN Accepted(currentPolygon, wasTrimmed)
  ELSE
    LET existing == existingPolygons[i]
    IN IF currentPolygon.cells \cap existing.cells = {}
       THEN OverlapLoopAlwaysTrims(currentPolygon, wasTrimmed, existingPolygons, i + 1)
       ELSE OverlapLoopAlwaysTrims(PolygonGeometry(currentPolygon.cells \ existing.cells),
                                   TRUE, existingPolygons, i + 1)

\* The for loop of validatePolygonOverlap from position i of existingPolygons.
RECURSIVE OverlapLoop(_, _, _, _)
OverlapLoop(currentPolygon, wasTrimmed, existingPolygons, i) ==
  IF i > Len(existingPolygons) THEN Accepted(currentPolygon, wasTrimmed)
  ELSE
    LET existing == existingPolygons[i]
        intersection == turfIntersect(currentPolygon, existing)
    IN IF intersection = Null
       THEN OverlapLoop(currentPolygon, wasTrimmed, existingPolygons, i + 1)
       ELSE
         LET currentArea == turfArea(currentPolygon)
             existingArea == turfArea(existing)
             intersectionArea == turfArea(intersection)
             difference == turfDifference(currentPolygon, existing)
         IN IF RatioAbove(intersectionArea, currentArea) THEN Rejected(ErrContained)
            ELSE IF RatioAbove(intersectionArea, existingArea) THEN Rejected(ErrContains)
            ELSE IF difference = Null THEN Rejected(ErrRemoved)
            ELSE OverlapLoop(difference, TRUE, existingPolygons, i + 1)

\* A comparison set that stops after its first polygon (a faulty variant of
\* ExistingPolygons)
ExistingPolygonsFirstOnly(existingFeatures, excludeId) ==
  LET keep(f) == /\ isPolygonalShape(f.shapeType)
                 /\ f.id # excludeId
                 /\ getPolygonFromGeometry(f.geometry) # Null
      kept == SelectSeq(existingFeatures, keep)
  IN [i \in 1..(IF Len(kept) > 0 THEN 1 ELSE 0) |-> getPolygonFromGeometry(kept[i].geometry)]

\* existingFeatures.filter(polygonal, not excluded).map(polygon).filter(non-null)
ExistingPolygons(existingFeatures, excludeId) ==
  LET keep(f) == /\ isPolygonalShape(f.shapeType)
                 /\ f.id # excludeId
                 /\ getPolygonFromGeometry(f.geometry) # Null
      kept == SelectSeq(existingFeatures, keep)
  IN [i \in 1..Len(kept) |-> getPolygonFromGeometry(kept[i].geometry)]

\* The body of validatePolygonOverlap once newPolygonFeature and
\* existingPolygons are computed: an exception of either, the early return on
\* a candidate that is no polygon, or the loop.
ValidateAgainst(newPolygonFeature, existingPolygons) ==
  IF newPolygonFeature = Thrown THEN Raised
  ELSE IF newPolygonFeature = Null
  THEN [isValid |-> TRUE, trimmedGeometry |-> UndefinedGeometry, error |-> Undefined]
  ELSE IF \E i \in DOMAIN existingPolygons : existingPolygons[i] = Thrown THEN Raised
  ELSE OverlapLoop(newPolygonFeature, FALSE, existingPolygons, 1)

\* getPolygonFromGeometry is called on the candidate and, in the map over the
\* existing features, on every polygonal feature that is not excluded, all of
\* it before the try block of the loop.
validatePolygonOverlap(newGeometry, existingFeatures, excludeId) ==
  ValidateAgainst(getPolygonFromGeometry(newGeometry),
                  ExistingPolygons(existingFeatures, excludeId))

\* ------------------------------------------------------------------- store
\* A GeoFeature: id, geometry, shapeType and the derived properties. An absent
\* optional property is the empty set, a present one the singleton of its value.
GeoFeature(id, geometry, shapeType, name, area, length) ==
  [id |-> id, geometry |-> geometry, shapeType |-> shapeType,
   properties |-> [name |-> name, area |-> area, length |-> length]]

Capitalized(shapeType) ==
  CASE shapeType = "polygon" -> "Polygon"
    [] shapeType = "rectangle" -> "Rectangle"
    [] shapeType = "circle" -> "Circle"
    [] shapeType = "line" -> "Line"

\* A name that numbers from zero (a faulty variant of generateShapeName)
generateShapeNameFromZero(shapeType, count) == <<"", Capitalized(shapeType), count>>

generateShapeName(shapeType, count) == <<"", Capitalized(shapeType), count + 1>>

calculateMetadata(geometry, shapeType) ==
  IF shapeType = "line"
  THEN [area |-> {}, length |-> {calculateLength(geometry)}]
  ELSE [area |-> {calculateArea(geometry)}, length |-> {}]

\* seq.slice(-n)
SliceLast(seq, n) ==
  IF Len(seq) <= n THEN seq ELSE SubSeq(seq, Len(seq) - n + 1, Len(seq))

\* A push that never drops a snapshot (a faulty variant of pushToHistory)
pushToHistoryUnbounded(history, newPresent) ==
  [past |-> Append(history.past, history.present),
   present |-> newPresent,
   future |-> <<>>]

\* A push that leaves future alone (a faulty variant of pushToHistory)
pushToHistoryKeepsFuture(history, newPresent) ==
  [past |-> SliceLast(Append(history.past, history.present), MAX_HISTORY_LENGTH),
   present |-> newPresent,
   future |-> history.future]

pushToHistory(history, newPresent) ==
  [past |-> SliceLast(Append(history.past, history.present), MAX_HISTORY_LENGTH),
   present |-> newPresent,
   future |-> <<>>]

\* A count that sees no feature (a faulty variant of getFeatureCount)
getFeatureCountOfNone(fs, shapeType) == 0

\* features.filter((f) => f.shapeType === shapeType).length
getFeatureCount(fs, shapeType) ==
  Cardinality({i \in 1..Len(fs) : fs[i].shapeType = shapeType})

canAddFeature(fs, shapeType) == getFeatureCount(fs, shapeType) < shapeLimits[shapeType]

HasFeature(fs, id) == \E i \in 1..Len(fs) : fs[i].id = id

\* features.find((f) => f.id === id), for an id that is present
FindFeature(fs, id) == fs[CHOOSE i \in 1..Len(fs) : fs[i].id = id]

\* The state of a new store, before rehydration.
initialState ==
  [features |-> <<>>,
   selectedFeatureId |-> NoId,
   history |-> [past |-> <<>>, present |-> <<>>, future |-> <<>>],
   shapeCounts |-> [polygon |-> 0, rectangle |-> 0, circle |-> 0, line |-> 0]]

\* addFeature: the new state and the returned id (NoId for null). `id` is the
\* id generateFeatureId returns, `name` the name in additionalProps, if any.
addFeature(st, geometry, shapeType, name, id) ==
  LET currentCount == getFeatureCount(st.features, shapeType)
      metadata == calculateMetadata(geometry, shapeType)
      newFeature == GeoFeature(id, geometry, shapeType,
                               IF name = {} THEN {generateShapeName(shapeType, currentCount)}
                               ELSE name,
                               metadata.area, metadata.length)
      newFeatures == Append(st.features, newFeature)
  IN IF currentCount >= shapeLimits[shapeType]
     THEN [st |-> st, id |-> NoId]
     ELSE [st |-> [st EXCEPT !.features = newFeatures,
                             !.history = pushToHistory(st.history, newFeatures),
                             !.shapeCounts[shapeType] = st.shapeCounts[shapeType] + 1],
           id |-> id]

\* Variant for C15: updateFeature without the early return for an absent id
updateFeatureUnguarded(st, id, geometry) ==
  LET newFeatures ==
        [i \in 1..Len(st.features) |->
           LET f == st.features[i]
               metadata == calculateMetadata(geometry, f.shapeType)
           IN IF f.id = id
              THEN [f EXCEPT !.geometry = geometry,
                             !.properties.area = metadata.area,
                             !.properties.length = metadata.length]
              ELSE f]
  IN [st EXCEPT !.features = newFeatures,
                !.history = pushToHistory(st.history, newFeatures)]

\* Variant for C16: updateFeature whose map replaces the geometry of every
\* feature of the kind of the one found
updateFeatureOfKind(st, id, geometry) ==
  IF ~HasFeature(st.features, id) THEN st
  ELSE
    LET feature == FindFeature(st.features, id)
        metadata == calculateMetadata(geometry, feature.shapeType)
        newFeatures ==
          [i \in 1..Len(st.features) |->
             LET f == st.features[i]
             IN IF f.shapeType = feature.shapeType
                THEN [f EXCEPT !.geometry = geometry,
                               !.properties.area = metadata.area,
                               !.properties.length = metadata.length]
                ELSE f]
    IN [st EXCEPT !.features = newFeatures,
                  !.history = pushToHistory(st.history, newFeatures)]

updateFeature(st, id, geometry) ==
  IF ~HasFeature(st.features, id) THEN st
  ELSE
    LET newFeatures ==
          [i \in 1..Len(st.features) |->
             LET f == st.features[i]
                 metadata == calculateMetadata(geometry, f.shapeType)
             IN IF f.id = id
                THEN [f EXCEPT !.geometry = geometry,
                               !.properties.area = metadata.area,
                               !.properties.length = metadata.length]
                ELSE f]
    IN [st EXCEPT !.features = newFeatures,
                  !.history = pushToHistory(st.history, newFeatures)]

removeFeature(st, id) ==
  LET keep(f) == f.id # id
      newFeatures == SelectSeq(st.features, keep)
  IN [st EXCEPT !.features = newFeatures,
                !.selectedFeatureId = IF st.selectedFeatureId = id THEN NoId
                                      ELSE st.selectedFeatureId,
                !.history = pushToHistory(st.history, newFeatures)]

selectFeature(st, id) == [st EXCEPT !.selectedFeatureId = id]

clearFeatures(st) ==
  [st EXCEPT !.features = <<>>,
             !.selectedFeatureId = NoId,
             !.history = pushToHistory(st.history, <<>>),
             !.shapeCounts = [polygon |-> 0, rectangle |-> 0, circle |-> 0, line |-> 0]]

\* An undo without the test for an empty past (a faulty variant of undo)
undoUnguarded(st) ==
  LET past == st.history.past
      previous == IF Len(past) = 0 THEN <<>> ELSE past[Len(past)]
  IN [st EXCEPT !.features = previous,
                !.history = [past |-> SubSeq(past, 1, Len(past) - 1),
                             present |-> previous,
                             future |-> <<st.features>> \o st.history.future]]

undo(st) ==
  IF Len(st.history.past) = 0 THEN st
  ELSE
    LET previous == st.history.past[Len(st.history.past)]
        newPast == SubSeq(st.history.past, 1, Len(st.history.past) - 1)
    IN [st EXCEPT !.features = previous,
                  !.history = [past |-> newPast,
                               present |-> previous,
                               future |-> <<st.features>> \o st.history.future]]

\* A redo that leaves future as it is (a faulty variant of redo)
redoKeepsFuture(st) ==
  IF Len(st.history.future) = 0 THEN st
  ELSE [st EXCEPT !.features = st.history.future[1],
                  !.history = [past |-> Append(st.history.past, st.features),
                               present |-> st.history.future[1],
                               future |-> st.history.future]]

redo(st) ==
  IF Len(st.history.future) = 0 THEN st
  ELSE
    LET next == st.history.future[1]
        newFuture == Tail(st.history.future)
    IN [st EXCEPT !.features = next,
                  !.history = [past |-> Append(st.history.past, st.features),
                               present |-> next,
                               future |-> newFuture]]

setFeatures(st, fs) ==
  [st EXCEPT !.features = fs, !.history = pushToHistory(st.history, fs)]

\* Variant for C19: importFeatures that commits the batch one feature at a
\* time, each with its own history entry
RECURSIVE importFeaturesOneByOne(_, _)
importFeaturesOneByOne(st, fs) ==
  IF fs = <<>> THEN st
  ELSE LET newFeatures == Append(st.features, Head(fs))
       IN importFeaturesOneByOne(
            [st EXCEPT !.features = newFeatures,
                       !.history = pushToHistory(st.history, newFeatures)],
            Tail(fs))

importFeatures(st, fs) ==
  LET newFeatures == st.features \o fs
  IN [st EXCEPT !.features = newFeatures,
                !.history = pushToHistory(st.history, newFeatures)]

\* persist: partialize keeps features and shapeCounts; a reload merges them
\* into the state of a new store.
\* Variant for C23: a snapshot that holds the whole state
rehydrateAll(st) == st

rehydrate(st) ==
  [initialState EXCEPT !.features = st.features, !.shapeCounts = st.shapeCounts]

\* ----------------------------------------------------------------- export
\* createFeature writes id, shapeType and createdAt (and radius and center
\* when present) into the properties: name, area and length are not written,
\* so they are absent from the exported feature.
createFeature(geoFeature) ==
  [type |-> "Feature",
   geometry |-> geoFeature.geometry,
   properties |-> [id |-> geoFeature.id, shapeType |-> geoFeature.shapeType,
                   name |-> {}, area |-> {}, length |-> {}]]

createFeatureCollection(fs) ==
  [type |-> "FeatureCollection",
   features |-> [i \in 1..Len(fs) |-> createFeature(fs[i])]]

\* ----------------------------------------------------- useOverlapValidation
\* The validation cache of one hook instance: a Map, as the sequence of its
\* entries in insertion order.
getCacheKey(geometry, excludeId, hookFeatures) ==
  [geometry |-> geometry, excludeId |-> excludeId, featureCount |-> Len(hookFeatures)]

CacheHas(cache, key) == \E i \in 1..Len(cache) : cache[i].key = key

CacheGet(cache, key) == cache[CHOOSE i \in 1..Len(cache) : cache[i].key = key].result

\* Map.set: a present key keeps its place, a new key goes last
CacheSet(cache, key, result) ==
  IF CacheHas(cache, key)
  THEN [i \in 1..Len(cache) |->
          IF cache[i].key = key THEN [key |-> key, result |-> result] ELSE cache[i]]
  ELSE Append(cache, [key |-> key, result |-> result])

\* if (size > 100) delete the first key
CacheLimit(cache) == IF Len(cache) > 100 THEN Tail(cache) ELSE cache

\* What a hook function does with the result it computed: an exception
\* leaves the cache as it was; otherwise the result is cached, and
\* validateNewPolygon (limited) then applies the size limit.
Validated(cache, cacheKey, result, limited) ==
  IF IsRaised(result) THEN [result |-> result, cache |-> cache]
  ELSE [result |-> result,
        cache |-> IF limited THEN CacheLimit(CacheSet(cache, cacheKey, result))
                  ELSE CacheSet(cache, cacheKey, result)]

\* validateNewPolygon of a hook instance rendered with `hookFeatures`. `recent`
\* says whether now - lastValidationTime < VALIDATION_DEBOUNCE_MS.
validateNewPolygon(hookFeatures, cache, geometry, shapeType, recent) ==
  IF ~isPolygonalShape(shapeType)
  THEN [result |-> [isValid |-> TRUE, trimmedGeometry |-> UndefinedGeometry,
                    error |-> Undefined],
        cache |-> cache]
  ELSE
    LET cacheKey == getCacheKey(geometry, NoId, hookFeatures)
        result == validatePolygonOverlap(geometry, hookFeatures, NoId)
    IN IF CacheHas(cache, cacheKey) /\ recent
       THEN [result |-> CacheGet(cache, cacheKey), cache |-> cache]
       ELSE Validated(cache, cacheKey, result, TRUE)

validateEditedPolygon(hookFeatures, cache, geometry, shapeType, featureId, recent) ==
  IF ~isPolygonalShape(shapeType)
  THEN [result |-> [isValid |-> TRUE, trimmedGeometry |-> UndefinedGeometry,
                    error |-> Undefined],
        cache |-> cache]
  ELSE
    LET cacheKey == getCacheKey(geometry, featureId, hookFeatures)
        result == validatePolygonOverlap(geometry, hookFeatures, featureId)
    IN IF CacheHas(cache, cacheKey) /\ recent
       THEN [result |-> CacheGet(cache, cacheKey), cache |-> cache]
       ELSE Validated(cache, cacheKey, result, FALSE)

HasTrimmed(result) == result.trimmedGeometry \notin {Null, UndefinedGeometry}

\* --------------------------------------------------------------- useDrawing
\* The application: the store, the layers registered in layerToFeatureMap (a
\* layer is named by the feature id it was registered with), the validation
\* caches of the two hook instances (MapView, ImportButton), the file read
\* that is under way, and the next id generateFeatureId returns.
LayerTypes == {"polygon", "rectangle", "circle", "polyline"}

mapLayerTypeToShapeType(layerType) ==
  CASE layerType = "polygon" -> "polygon"
    [] layerType = "rectangle" -> "rectangle"
    [] layerType = "circle" -> "circle"
    [] layerType = "polyline" -> "line"
    [] OTHER -> "polygon"

\* circleToPolygon, or the closed ring of the layer's vertices, or its vertices
extractGeometryFromLayer(layerType, cells) ==
  IF layerType = "polyline" THEN LineGeometry(cells)
  ELSE [type |-> "Polygon", cells |-> cells]

\* handleCreated without the return on a rejected validation (a faulty variant)
handleCreatedCommitsRejected(app, layerType, cells, recent) ==
  LET shapeType == mapLayerTypeToShapeType(layerType)
      extracted == extractGeometryFromLayer(layerType, cells)
      v == validateNewPolygon(app.st.features, app.drawCache, extracted, shapeType, recent)
      validation == v.result
      finalGeometry == IF isPolygonalShape(shapeType) /\ HasTrimmed(validation)
                       THEN validation.trimmedGeometry ELSE extracted
      added == addFeature(app.st, finalGeometry, shapeType, {}, app.nextId)
  IN IF ~canAddFeature(app.st.features, shapeType)
     THEN app
     ELSE IF added.id = NoId
     THEN [app EXCEPT !.st = added.st, !.drawCache = v.cache]
     ELSE [app EXCEPT !.st = added.st,
                      !.drawCache = v.cache,
                      !.nextId = app.nextId + 1,
                      !.layerToFeatureMap = app.layerToFeatureMap \cup {added.id}]

handleCreated(app, layerType, cells, recent) ==
  LET shapeType == mapLayerTypeToShapeType(layerType)
      extracted == extractGeometryFromLayer(layerType, cells)
      v == validateNewPolygon(app.st.features, app.drawCache, extracted, shapeType, recent)
      validation == v.result
      finalGeometry == IF isPolygonalShape(shapeType) /\ HasTrimmed(validation)
                       THEN validation.trimmedGeometry ELSE extracted
      added == addFeature(app.st, finalGeometry, shapeType, {}, app.nextId)
  IN IF ~canAddFeature(app.st.features, shapeType)
     THEN app
     ELSE IF isPolygonalShape(shapeType) /\ IsRaised(validation)
     THEN app
     ELSE IF isPolygonalShape(shapeType) /\ ~validation.isValid
     THEN [app EXCEPT !.drawCache = v.cache]
     ELSE IF added.id = NoId
     THEN [app EXCEPT !.st = added.st, !.drawCache = v.cache]
     ELSE [app EXCEPT !.st = added.st,
                      !.drawCache = v.cache,
                      !.nextId = app.nextId + 1,
                      !.layerToFeatureMap = app.layerToFeatureMap \cup {added.id}]

LayerTypeOf(shapeType) == IF shapeType = "line" THEN "polyline" ELSE shapeType

\* The eachLayer loop of handleEdited from position i of the edited layers.
\* hookFeatures are the features of the render the handler was created in;
\* edits[i] is a layer (by its feature id) with the cells it now covers.
RECURSIVE EditLoop(_, _, _, _, _, _)
EditLoop(app, hookFeatures, edits, recents, i, editCount) ==
  IF i > Len(edits) THEN app
  ELSE
    LET featureId == edits[i].layer
        features == app.st.features
    IN IF ~HasFeature(features, featureId)
       THEN EditLoop(app, hookFeatures, edits, recents, i + 1, editCount)
       ELSE
         LET feature == FindFeature(features, featureId)
             extracted == extractGeometryFromLayer(LayerTypeOf(feature.shapeType),
                                                   edits[i].cells)
             v == validateEditedPolygon(hookFeatures, app.drawCache, extracted,
                                        feature.shapeType, featureId, recents[i])
             validation == v.result
             finalGeometry == IF isPolygonalShape(feature.shapeType) /\ HasTrimmed(validation)
                              THEN validation.trimmedGeometry ELSE extracted
         IN IF isPolygonalShape(feature.shapeType) /\ ~validation.isValid
            THEN EditLoop([app EXCEPT !.drawCache = v.cache],
                          hookFeatures, edits, recents, i + 1, editCount)
            ELSE EditLoop([app EXCEPT !.st = updateFeature(app.st, featureId, finalGeometry),
                                      !.drawCache = v.cache],
                          hookFeatures, edits, recents, i + 1, editCount + 1)

handleEdited(app, edits, recents) ==
  EditLoop(app, app.st.features, edits, recents, 1, 0)

\* The eachLayer loop of handleDeleted from position i of the deleted layers.
RECURSIVE DeleteLoop(_, _, _)
DeleteLoop(app, layers, i) ==
  IF i > Len(layers) THEN app
  ELSE DeleteLoop([app EXCEPT !.st = removeFeature(app.st, layers[i]),
                              !.layerToFeatureMap = app.layerToFeatureMap \ {layers[i]}],
                  layers, i + 1)

handleDeleted(app, layers) == DeleteLoop(app, layers, 1)

\* ------------------------------------------------------------- ImportButton
detectShapeType(geometry) ==
  CASE geometry.type = "Polygon" -> "polygon"
    [] geometry.type = "LineString" -> "line"
    [] geometry.type = "MultiPolygon" -> "polygon"
    [] OTHER -> Undefined

\* The for loop of reader.onload from position i of the file's features.
\* storeFeatures are the store's features (getFeatureCount reads the store),
\* hookFeatures the features validateNewPolygon was rendered with.
RECURSIVE ImportLoop(_, _, _, _, _, _, _, _)
ImportLoop(storeFeatures, hookFeatures, file, recents, i, importedFeatures, cache, id) ==
  IF i > Len(file)
  THEN [importedFeatures |-> importedFeatures, cache |-> cache, nextId |-> id]
  ELSE
    LET feature == file[i]
        shapeType == detectShapeType(feature.geometry)
        skip == ImportLoop(storeFeatures, hookFeatures, file, recents, i + 1,
                           importedFeatures, cache, id)
    IN IF feature.geometry = Null THEN skip
       ELSE IF shapeType = Undefined THEN skip
       ELSE
         LET currentCount == getFeatureCount(storeFeatures, shapeType)
                               + getFeatureCount(importedFeatures, shapeType)
             v == validateNewPolygon(hookFeatures, cache, feature.geometry, shapeType,
                                     recents[i])
             validation == v.result
             finalGeometry == IF isPolygonalShape(shapeType) /\ HasTrimmed(validation)
                              THEN validation.trimmedGeometry ELSE feature.geometry
             name == IF feature.name = {}
                     THEN {<<"Imported", shapeType, Len(importedFeatures) + 1>>}
                     ELSE feature.name
             newFeature == GeoFeature(id, finalGeometry, shapeType, name,
                                      feature.area, feature.length)
         IN IF currentCount >= shapeLimits[shapeType] THEN skip
            ELSE IF isPolygonalShape(shapeType) /\ ~validation.isValid
            THEN ImportLoop(storeFeatures, hookFeatures, file, recents, i + 1,
                            importedFeatures, v.cache, id)
            ELSE ImportLoop(storeFeatures, hookFeatures, file, recents, i + 1,
                            Append(importedFeatures, newFeature), v.cache, id + 1)

NoImport == [pending |-> FALSE, file |-> <<>>, hookFeatures |-> <<>>]

\* handleFileSelect: the read starts; its onload callback keeps the
\* validateNewPolygon of the render the file was selected in.
handleFileSelect(app, file) ==
  [app EXCEPT !.pendingImport =
                 [pending |-> TRUE, file |-> file, hookFeatures |-> app.st.features]]

\* reader.onload
onload(app, recents) ==
  LET r == ImportLoop(app.st.features, app.pendingImport.hookFeatures,
                      app.pendingImport.file, recents, 1, <<>>, app.importCache,
                      app.nextId)
  IN IF Len(r.importedFeatures) > 0
     THEN [app EXCEPT !.st = importFeatures(app.st, r.importedFeatures),
                      !.importCache = r.cache,
                      !.nextId = r.nextId,
                      !.pendingImport = NoImport]
     ELSE [app EXCEPT !.importCache = r.cache, !.pendingImport = NoImport]

\* A page load: a new store rehydrated from the persisted snapshot, a map
\* without layers, new hook instances.
reload(app) ==
  [st |-> rehydrate(app.st),
   layerToFeatureMap |-> {},
   drawCache |-> <<>>,
   importCache |-> <<>>,
   pendingImport |-> NoImport,
   nextId |-> app.nextId]

\* ------------------------------------------------------------------- state
VARIABLES
  features, selectedFeatureId, history, shapeCounts,  \* the store
  layerToFeatureMap,        \* useDrawing: the registered layers
  drawCache, importCache,   \* validationCache of MapView's and ImportButton's hook
  pendingImport,            \* the file read under way
  nextId,                   \* the next id of generateFeatureId
  last,                     \* the last operation, the features before it, its success
  run, trail,               \* history pushes since the last undo or reload, their snapshots
  ops,                      \* operations so far
  probe                     \* a call of the engine: its arguments and results

vars == <<features, selectedFeatureId, history, shapeCounts, layerToFeatureMap,
          drawCache, importCache, pendingImport, nextId, last, run, trail, ops, probe>>

App ==
  [st |-> [features |-> features, selectedFeatureId |-> selectedFeatureId,
           history |-> history, shapeCounts |-> shapeCounts],
   layerToFeatureMap |-> layerToFeatureMap,
   drawCache |-> drawCache,
   importCache |-> importCache,
   pendingImport |-> pendingImport,
   nextId |-> nextId]

IsApp(app) ==
  /\ features = app.st.features
  /\ selectedFeatureId = app.st.selectedFeatureId
  /\ history = app.st.history
  /\ shapeCounts = app.st.shapeCounts
  /\ layerToFeatureMap = app.layerToFeatureMap
  /\ drawCache = app.drawCache
  /\ importCache = app.importCache
  /\ pendingImport = app.pendingImport
  /\ nextId = app.nextId

Becomes(app) ==
  /\ features' = app.st.features
  /\ selectedFeatureId' = app.st.selectedFeatureId
  /\ history' = app.st.history
  /\ shapeCounts' = app.st.shapeCounts
  /\ layerToFeatureMap' = app.layerToFeatureMap
  /\ drawCache' = app.drawCache
  /\ importCache' = app.importCache
  /\ pendingImport' = app.pendingImport
  /\ nextId' = app.nextId

\* The application right after its first page load.
NewApp ==
  [st |-> initialState, layerToFeatureMap |-> {}, drawCache |-> <<>>,
   importCache |-> <<>>, pendingImport |-> NoImport, nextId |-> 1]

WithStore(app, st) == [app EXCEPT !.st = st]

\* ------------------------------------------------------------ start states
\* Cells far from the grid, one per polygonal feature of an earlier session.
FarCell(id) == 100 + id

\* An earlier session drew n shapes of one kind, apart from each other.
\* (The test of `drawn` makes TLC compute each state before it goes on.)
RECURSIVE DrawnBefore(_, _, _)
DrawnBefore(app, layerType, n) ==
  IF n = 0 THEN app
  ELSE LET drawn == handleCreated(app, layerType, {FarCell(app.nextId)}, FALSE)
       IN IF drawn.nextId > app.nextId THEN DrawnBefore(drawn, layerType, n - 1)
          ELSE drawn

\* One shape short of every cap, then a page load.
NearCaps ==
  reload(DrawnBefore(
           DrawnBefore(
             DrawnBefore(
               DrawnBefore(NewApp, "polygon", shapeLimits.polygon - 1),
               "rectangle", shapeLimits.rectangle - 1),
             "circle", shapeLimits.circle - 1),
           "polyline", shapeLimits.line - 1))

\* A line drawn and edited again and again: n more history entries. (The test
\* of `edited` makes TLC compute each state before it goes on to the next.)
RECURSIVE EditedBefore(_, _)
EditedBefore(st, n) ==
  IF n = 0 THEN st
  ELSE LET edited == updateFeature(st, 1, LineGeometry(IF n % 2 = 0 THEN {2, 3} ELSE {2}))
       IN IF Len(edited.features) = 1 THEN EditedBefore(edited, n - 1) ELSE edited

LongHistory ==
  [NewApp EXCEPT
     !.st = EditedBefore(addFeature(initialState, LineGeometry({2}), "line", {}, 1).st,
                         MAX_HISTORY_LENGTH - 2),
     !.nextId = 2]

\* A polygon dragged n times in one session, each time to a place it has not
\* been at: n validations by validateEditedPolygon, each under a key of its
\* own. (The test of `edited` makes TLC compute each state before it goes on.)
RECURSIVE DraggedBefore(_, _)
DraggedBefore(app, n) ==
  IF n = 0 THEN app
  ELSE LET edited == handleEdited(app, <<[layer |-> 1,
                                          cells |-> {FarCell(Len(app.drawCache) + 1)}]>>,
                                  <<FALSE>>)
       IN IF Len(edited.drawCache) > Len(app.drawCache)
          THEN DraggedBefore(edited, n - 1) ELSE edited

\* A session with one polygon, drawn and then dragged, after 34, 67 and 100
\* validations: at the end the validation cache of the map's hook holds 100
\* entries.
SessionStart == DraggedBefore(handleCreated(NewApp, "polygon", {FarCell(1)}, FALSE), 33)

SessionMiddle == DraggedBefore(SessionStart, 33)

LongSession == DraggedBefore(SessionMiddle, 33)

\* What an operation was called with: a kind, a feature id, a number of inputs.
NoArg == [kind |-> "", id |-> NoId, n |-> 0]

InitGhost(app) ==
  /\ last = [op |-> "init", arg |-> NoArg, ok |-> TRUE, pre |-> app.st.features]
  /\ run = Len(app.st.history.past)
  /\ trail = app.st.history.past
  /\ ops = 0

\* ----------------------------------------------------------------- actions
MutatingOps == {"addFeature", "updateFeature", "removeFeature", "clearFeatures",
                "importFeatures", "setFeatures"}

\* One operation: the application becomes app. `ok` says whether it did what
\* it was called for, `pushed` whether it went through pushToHistory. A run
\* is a series of successful pushing operations: an undo, a page load and a
\* push by an operation that changed nothing end it.
Step(op, arg, ok, pushed, app) ==
  /\ ops < MaxOps
  /\ ops' = ops + 1
  /\ Becomes(app)
  /\ last' = [op |-> op, arg |-> arg, ok |-> ok, pre |-> features]
  /\ run' = IF op \in {"undo", "reload"} \/ (pushed /\ ~ok) THEN 0
            ELSE IF pushed /\ run <= MAX_HISTORY_LENGTH THEN run + 1
            ELSE run
  /\ trail' = IF op \in {"undo", "reload"} \/ (pushed /\ ~ok) THEN <<>>
              ELSE IF pushed THEN SliceLast(Append(trail, features), MAX_HISTORY_LENGTH)
              ELSE trail
  /\ UNCHANGED probe

\* Sequences of 1..n elements of S
SeqsUpTo(S, n) == UNION {[1..k -> S] : k \in 1..n}

Distinct(seq) ==
  \A i \in 1..Len(seq), j \in 1..Len(seq) : i # j => seq[i] # seq[j]

\* The ids an operation is tried with: the newest feature and an id that no
\* feature has.
TriedIds ==
  {features[i].id : i \in {Len(features)} \cap DOMAIN features} \cup {nextId}

\* The geometries the store's operations are called with, by kind
StoreGeometry(shapeType) ==
  IF shapeType = "line" THEN LineGeometry({2}) ELSE PolygonGeometry({2, 3})

OtherGeometry(shapeType) ==
  IF shapeType = "line" THEN LineGeometry({2, 3}) ELSE PolygonGeometry({3, 4})

\* --- the store's operations, called directly
AddFeature ==
  \E shapeType \in ShapeType :
    LET r == addFeature(App.st, StoreGeometry(shapeType), shapeType, {}, nextId)
    IN Step("addFeature", [NoArg EXCEPT !.kind = shapeType], r.id # NoId, r.id # NoId,
            [WithStore(App, r.st) EXCEPT
               !.nextId = IF r.id # NoId THEN nextId + 1 ELSE nextId])

UpdateFeature ==
  \E id \in TriedIds :
    LET shapeType == IF HasFeature(features, id) THEN FindFeature(features, id).shapeType
                     ELSE "polygon"
        geometry == IF HasFeature(features, id)
                       /\ FindFeature(features, id).geometry = OtherGeometry(shapeType)
                    THEN StoreGeometry(shapeType) ELSE OtherGeometry(shapeType)
    IN Step("updateFeature", [NoArg EXCEPT !.id = id],
            HasFeature(features, id), HasFeature(features, id),
            WithStore(App, updateFeature(App.st, id, geometry)))

RemoveFeature ==
  \E id \in TriedIds :
    Step("removeFeature", [NoArg EXCEPT !.id = id], HasFeature(features, id), TRUE,
         WithStore(App, removeFeature(App.st, id)))

SelectFeature ==
  \E id \in TriedIds \cup {NoId} :
    Step("selectFeature", [NoArg EXCEPT !.id = id], TRUE, FALSE, WithStore(App, selectFeature(App.st, id)))

ClearFeatures ==
  Step("clearFeatures", NoArg, TRUE, TRUE, WithStore(App, clearFeatures(App.st)))

Undo == Step("undo", NoArg, Len(history.past) > 0, FALSE, WithStore(App, undo(App.st)))

Redo == Step("redo", NoArg, Len(history.future) > 0, FALSE, WithStore(App, redo(App.st)))

SetFeatures ==
  \E fs \in {<<>>, SubSeq(features, 1, Len(features) - 1)} :
    Step("setFeatures", [NoArg EXCEPT !.n = Len(fs)], TRUE, TRUE, WithStore(App, setFeatures(App.st, fs)))

\* The features ImportButton builds from a file of k accepted features of a kind
NewFeatures(shapeType, k) ==
  [i \in 1..k |->
     GeoFeature(nextId + i - 1, StoreGeometry(shapeType), shapeType,
                {<<"Imported", shapeType, i>>}, {}, {})]

ImportFeatures ==
  \E shapeType \in {"polygon", "line"}, k \in 1..MaxFileLen :
    Step("importFeatures", [NoArg EXCEPT !.kind = shapeType, !.n = k], TRUE, TRUE,
         [WithStore(App, importFeatures(App.st, NewFeatures(shapeType, k))) EXCEPT
            !.nextId = nextId + k])

Reload == Step("reload", NoArg, TRUE, FALSE, reload(App))

\* --- the handlers of the user interface
DrawCells == {{2, 3}, {3, 4}}

\* A click on a row of the shape list (Toolbar) or on the close button of
\* the info panel (FeatureInfo)
Selected ==
  \E id \in {features[i].id : i \in {Len(features)} \cap DOMAIN features} \cup {NoId} :
    Step("selectFeature", [NoArg EXCEPT !.id = id], TRUE, FALSE, WithStore(App, selectFeature(App.st, id)))

\* Whether a call comes within VALIDATION_DEBOUNCE_MS of the last validation
\* is open, and it matters only when the cache holds the key of the call.
Recent(cache, geometry, excludeId, hookFeatures) ==
  IF CacheHas(cache, getCacheKey(geometry, excludeId, hookFeatures))
  THEN BOOLEAN ELSE {FALSE}

Created ==
  \E layerType \in LayerTypes, cells \in DrawCells :
    \E recent \in Recent(drawCache, extractGeometryFromLayer(layerType, cells),
                         NoId, features) :
    LET app == handleCreated(App, layerType, cells, recent)
    IN Step("handleCreated", [NoArg EXCEPT !.kind = mapLayerTypeToShapeType(layerType)],
            app.nextId # nextId, app.nextId # nextId, app)

Edited ==
  /\ ops < MaxOps
  /\ \E k \in 1..MaxEditLayers :
       \E edits \in [1..k -> [layer : layerToFeatureMap, cells : DrawCells]] :
         \E recents \in [1..k -> BOOLEAN] :
           LET app == handleEdited(App, edits, recents)
           IN /\ Distinct([i \in 1..k |-> edits[i].layer])
              /\ \A i \in 1..k :
                   recents[i] \in Recent(drawCache,
                                         extractGeometryFromLayer("polygon", edits[i].cells),
                                         edits[i].layer, features)
              /\ Step("handleEdited", [NoArg EXCEPT !.n = k],
                      app.st.features # features, app.st.history # history, app)

Deleted ==
  /\ ops < MaxOps
  /\ \E layers \in SeqsUpTo(layerToFeatureMap, MaxEditLayers) :
       /\ Distinct(layers)
       /\ Step("handleDeleted", [NoArg EXCEPT !.n = Len(layers)], TRUE, TRUE,
                  handleDeleted(App, layers))

FileFeatures ==
  {[geometry |-> g, name |-> {}, area |-> {}, length |-> {}] :
     g \in {PolygonGeometry({3, 4}), LineGeometry({2, 3})}}

FileSelected ==
  /\ ops < MaxOps
  /\ ~pendingImport.pending
  /\ \E file \in SeqsUpTo(FileFeatures, MaxFileLen) :
       Step("handleFileSelect", [NoArg EXCEPT !.n = Len(file)], TRUE, FALSE,
            handleFileSelect(App, file))

FileLoaded ==
  /\ ops < MaxOps
  /\ pendingImport.pending
  /\ \E recents \in [1..Len(pendingImport.file) -> BOOLEAN] :
       LET file == pendingImport.file
           app == onload(App, recents)
       IN /\ \A i \in 1..Len(file) :
               \/ recents[i] \in Recent(importCache, file[i].geometry, NoId,
                                        pendingImport.hookFeatures)
               \/ \E j \in 1..(i - 1) : file[j].geometry = file[i].geometry
          /\ Step("onload", [NoArg EXCEPT !.n = Len(pendingImport.file)],
               app.st.features # features, app.st.history # history, app)

\* An application whose store holds the features `fs` and nothing else
AppHolding(fs) ==
  [WithStore(NewApp, [initialState EXCEPT !.features = fs]) EXCEPT
     !.nextId = Len(fs) + 1]

\* The features after handleCreated for a drawn polygon layer of the
\* geometry `geometry` in a store holding `fs`
CreatedIn(fs, geometry) ==
  handleCreated(AppHolding(fs), "polygon", geometry.cells, FALSE).st.features

\* --- a probe of the engine: the arguments are drawn at the start
Probe ==
  /\ ~probe.called
  /\ probe' = [probe EXCEPT
       !.called = TRUE,
       !.overlap = validatePolygonOverlap(probe.geometry, probe.features, probe.excludeId),
       !.new = validateNewPolygon(probe.features, <<>>, probe.geometry,
                                  probe.shapeType, FALSE).result,
       !.edited = validateEditedPolygon(probe.features, <<>>, probe.geometry,
                                        probe.shapeType, probe.excludeId, FALSE).result]
  /\ UNCHANGED <<features, selectedFeatureId, history, shapeCounts,
                 layerToFeatureMap, drawCache, importCache, pendingImport, nextId,
                 last, run, trail, ops>>

\* --- a probe of handleCreated: the drawn polygon and the store's features
\* are drawn at the start
ProbeCreated ==
  /\ ~probe.called
  /\ probe' = [probe EXCEPT
       !.called = TRUE,
       !.overlap = validatePolygonOverlap(probe.geometry, probe.features, probe.excludeId),
       !.created = CreatedIn(probe.features, probe.geometry)]
  /\ UNCHANGED <<features, selectedFeatureId, history, shapeCounts,
                 layerToFeatureMap, drawCache, importCache, pendingImport, nextId,
                 last, run, trail, ops>>

\* ---------------------------------------------------------- specifications
NoResult == [isValid |-> FALSE, trimmedGeometry |-> UndefinedGeometry, error |-> "not called"]

IdleProbe ==
  [called |-> FALSE, geometry |-> Null, shapeType |-> "line", features |-> <<>>,
   excludeId |-> NoId, overlap |-> NoResult, new |-> NoResult, edited |-> NoResult,
   created |-> <<>>]

\* The user interface: the drawing handlers, the import button, the toolbar
\* and the keyboard shortcuts.
Init ==
  /\ \E app \in {NewApp, NearCaps} : IsApp(app) /\ InitGhost(app)
  /\ probe = IdleProbe

Next ==
  \/ Created
  \/ Edited
  \/ Deleted
  \/ ClearFeatures
  \/ Undo
  \/ Redo
  \/ Selected
  \/ FileSelected
  \/ FileLoaded
  \/ Reload

Spec == Init /\ [][Next]_vars

\* The application late in a session: the same handlers, after many edits.
InitSession ==
  /\ IsApp(LongSession) /\ InitGhost(LongSession)
  /\ probe = IdleProbe

SpecSession == InitSession /\ [][Next]_vars

\* The store alone, every operation of its interface called directly.
InitStore ==
  /\ \E app \in {NewApp, NearCaps, LongHistory} : IsApp(app) /\ InitGhost(app)
  /\ probe = IdleProbe

NextStore ==
  \/ AddFeature
  \/ UpdateFeature
  \/ RemoveFeature
  \/ SelectFeature
  \/ ClearFeatures
  \/ Undo
  \/ Redo
  \/ SetFeatures
  \/ ImportFeatures
  \/ Reload

SpecStore == InitStore /\ [][NextStore]_vars

\* The store with features added and features removed, any of them
RemoveAnyFeature ==
  \E id \in {features[i].id : i \in DOMAIN features} :
    Step("removeFeature", [NoArg EXCEPT !.id = id], TRUE, TRUE,
         WithStore(App, removeFeature(App.st, id)))

InitNames ==
  /\ \E app \in {NewApp, NearCaps} : IsApp(app) /\ InitGhost(app)
  /\ probe = IdleProbe

NextNames ==
  \/ AddFeature
  \/ RemoveAnyFeature

SpecNames == InitNames /\ [][NextNames]_vars

\* The engine alone: validatePolygonOverlap and the two hook functions on
\* every candidate and every feature set of the grid.
ProbeGeometries ==
  {PolygonGeometry(cells) : cells \in (SUBSET Cells) \ {{}}} \cup {LineGeometry({2, 3})}

\* The stored features with the geometries `gs`, in that order
ProbeFeatures(gs) ==
  [i \in DOMAIN gs |->
     GeoFeature(i, gs[i], IF gs[i].type = "LineString" THEN "line" ELSE "polygon",
                {}, {}, {})]

InitEngine ==
  /\ IsApp(NewApp) /\ InitGhost(NewApp)
  /\ \E k \in 0..MaxExisting :
     \E gs \in [1..k -> ProbeGeometries], geometry \in ProbeGeometries,
        excludeId \in {NoId, 1} :
       LET fs == ProbeFeatures(gs) IN
       probe = [IdleProbe EXCEPT
                  !.geometry = geometry,
                  !.shapeType = IF geometry.type = "LineString" THEN "line" ELSE "polygon",
                  !.features = fs,
                  !.excludeId = excludeId]

NextEngine == Probe

SpecEngine == InitEngine /\ [][NextEngine]_vars

\* The engine probed with geometries that include a malformed ring, as
\* candidate and in the stored features
RingGeometries == ProbeGeometries \cup {BadRing}

InitRings ==
  /\ IsApp(NewApp) /\ InitGhost(NewApp)
  /\ \E k \in 0..MaxExisting :
     \E gs \in [1..k -> RingGeometries], geometry \in RingGeometries,
        excludeId \in {NoId, 1} :
       LET fs == ProbeFeatures(gs) IN
       /\ geometry = BadRing \/ \E i \in DOMAIN fs : fs[i].geometry = BadRing
       /\ probe = [IdleProbe EXCEPT
                     !.geometry = geometry,
                     !.shapeType = IF geometry.type = "LineString" THEN "line" ELSE "polygon",
                     !.features = fs,
                     !.excludeId = excludeId]

NextRings == Probe

\* The engine probed on the grid widened by the narrow cell, against stored
\* polygons that lie apart from each other
OrderCells == Cells \cup {0}

OrderGeometries == {PolygonGeometry(cells) : cells \in (SUBSET OrderCells) \ {{}}}

InitOrder ==
  /\ IsApp(NewApp) /\ InitGhost(NewApp)
  /\ \E k \in 0..MaxExisting :
     \E gs \in [1..k -> OrderGeometries] :
       /\ \A i, j \in 1..k : i # j => gs[i].cells \cap gs[j].cells = {}
       /\ \E geometry \in OrderGeometries, excludeId \in {NoId, 1} :
            probe = [IdleProbe EXCEPT
                       !.geometry = geometry,
                       !.shapeType = "polygon",
                       !.features = ProbeFeatures(gs),
                       !.excludeId = excludeId]

NextOrder == Probe

SpecOrder == InitOrder /\ [][NextOrder]_vars

\* handleCreated probed with every polygon that can be drawn (one ring)
\* against every feature sequence
DrawnGeometries ==
  {PolygonGeometry(cells) : cells \in {c \in (SUBSET Cells) \ {{}} : Connected(c)}}

InitDrawn ==
  /\ IsApp(NewApp) /\ InitGhost(NewApp)
  /\ \E k \in 0..MaxExisting :
     \E gs \in [1..k -> ProbeGeometries], geometry \in DrawnGeometries :
       LET fs == ProbeFeatures(gs) IN
       probe = [IdleProbe EXCEPT
                  !.geometry = geometry,
                  !.shapeType = "polygon",
                  !.features = fs]

NextDrawn == ProbeCreated

SpecDrawn == InitDrawn /\ [][NextDrawn]_vars

SpecRings == InitRings /\ [][NextRings]_vars

\* ---------------------------------------------------------------- properties
\* The polygonal features a candidate is compared with
Compared(fs, excludeId) ==
  {i \in 1..Len(fs) : isPolygonalShape(fs[i].shapeType) /\ fs[i].id # excludeId}

Covered(fs, excludeId) == UNION {fs[i].geometry.cells : i \in Compared(fs, excludeId)}

\* The geometry a result stands for: the trimmed one, or the candidate itself
Outcome(result, geometry) ==
  IF HasTrimmed(result) THEN result.trimmedGeometry ELSE geometry

PolygonProbe == probe.called /\ probe.geometry.type \in {"Polygon", "MultiPolygon"}

\* C2: whenever validatePolygonOverlap accepts a polygonal candidate, the
\* geometry it stands for is the candidate minus the union of the compared
\* features (every polygonal feature but the excluded one), so it shares no
\* area with any of them; a trimmed geometry is returned exactly when some
\* compared feature overlapped the candidate, and then its area is smaller
\* than the candidate's; with no overlap trimmedGeometry is null. A square
\* overlapping an existing square at one corner is cut to what lies outside.
C2_AcceptedIsDifference ==
  /\ (PolygonProbe /\ probe.overlap.isValid) =>
       LET candidate == probe.geometry.cells
           covered == Covered(probe.features, probe.excludeId)
           outcome == Outcome(probe.overlap, probe.geometry)
       IN /\ outcome.cells = candidate \ covered
          /\ \A i \in Compared(probe.features, probe.excludeId) :
               outcome.cells \cap probe.features[i].geometry.cells = {}
          /\ HasTrimmed(probe.overlap) <=> candidate \cap covered # {}
          /\ HasTrimmed(probe.overlap) => SumArea(outcome.cells) < SumArea(candidate)
          /\ candidate \cap covered = {} => probe.overlap.trimmedGeometry = Null
          /\ probe.overlap.error = Undefined
  /\ (/\ PolygonProbe
      /\ probe.geometry = PolygonGeometry({3, 4})
      /\ Len(probe.features) = 1
      /\ probe.features[1].geometry = PolygonGeometry({2, 3})
      /\ probe.excludeId = NoId)
     => probe.overlap = [isValid |-> TRUE, trimmedGeometry |-> PolygonGeometry({4}),
                         error |-> Undefined]

\* C2 happens: a candidate is accepted trimmed against two features, the
\* first of which overlaps it but is excluded.
C2_Witness ==
  /\ PolygonProbe
  /\ probe.overlap.isValid
  /\ HasTrimmed(probe.overlap)
  /\ Len(probe.features) = 2
  /\ probe.excludeId = probe.features[1].id
  /\ probe.features[1].geometry.cells \cap probe.geometry.cells # {}
  /\ isPolygonalShape(probe.features[1].shapeType)

\* A probe of a polygonal candidate against a single compared feature, and
\* the ratios of the shared area to the candidate's and to the feature's area
OneCompared ==
  /\ PolygonProbe
  /\ Len(probe.features) = 1
  /\ Compared(probe.features, probe.excludeId) = {1}

SharedArea == SumArea(probe.geometry.cells \cap probe.features[1].geometry.cells)

CandidateInside == 100 * SharedArea > 99 * SumArea(probe.geometry.cells)

ExistingInside == 100 * SharedArea > 99 * SumArea(probe.features[1].geometry.cells)

NoTrimmedGeometry(result) == ~HasTrimmed(result)

\* C3 as stated: a candidate fully inside the existing polygon (shared area
\* over 0.99 of the candidate's) is rejected as 'fully contained', a candidate
\* that has the existing polygon fully inside it (shared area over 0.99 of the
\* existing one's) is rejected as 'fully contains', both without a trimmed
\* geometry.
C3_ContainmentSymmetry ==
  OneCompared =>
    /\ CandidateInside =>
         /\ ~probe.overlap.isValid
         /\ probe.overlap.error = ErrContained
         /\ NoTrimmedGeometry(probe.overlap)
    /\ ExistingInside =>
         /\ ~probe.overlap.isValid
         /\ probe.overlap.error = ErrContains
         /\ NoTrimmedGeometry(probe.overlap)

\* C3 amended: the 'fully contains' reason is given only when the candidate
\* is not itself inside the existing polygon by the same ratio; when both
\* ratios are over 0.99 the reason is 'fully contained'.
C3_ContainmentByRatio ==
  OneCompared =>
    /\ CandidateInside =>
         /\ ~probe.overlap.isValid
         /\ probe.overlap.error = ErrContained
         /\ NoTrimmedGeometry(probe.overlap)
    /\ (ExistingInside /\ ~CandidateInside) =>
         /\ ~probe.overlap.isValid
         /\ probe.overlap.error = ErrContains
         /\ NoTrimmedGeometry(probe.overlap)

\* C3 happens: the existing polygon lies inside a larger candidate, which is
\* rejected as 'fully contains'.
C3_Witness ==
  /\ OneCompared
  /\ ExistingInside
  /\ ~CandidateInside
  /\ probe.overlap = Rejected(ErrContains)

AcceptedUntouched(result) ==
  result.isValid /\ ~HasTrimmed(result) /\ result.error = Undefined

WithoutLines(fs) ==
  LET notLine(f) == f.shapeType # "line"
  IN SelectSeq(fs, notLine)

\* C4: a line geometry of kind line is accepted untrimmed and without error
\* by validateNewPolygon, validateEditedPolygon and validatePolygonOverlap,
\* whatever the features are; and the features of kind line make no
\* difference to the result for any candidate.
C4_LineExemption ==
  probe.called =>
    /\ (probe.geometry.type = "LineString" /\ probe.shapeType = "line") =>
         /\ AcceptedUntouched(probe.new)
         /\ AcceptedUntouched(probe.edited)
         /\ AcceptedUntouched(probe.overlap)
    /\ probe.overlap = validatePolygonOverlap(probe.geometry, WithoutLines(probe.features),
                                              probe.excludeId)

\* C4 happens: a line is validated against a polygon that covers it, and a
\* line is among the features.
C4_Witness ==
  /\ probe.called
  /\ probe.geometry.type = "LineString"
  /\ probe.shapeType = "line"
  /\ Len(probe.features) = 2
  /\ isPolygonalShape(probe.features[1].shapeType)
  /\ probe.geometry.cells \subseteq probe.features[1].geometry.cells
  /\ probe.features[2].shapeType = "line"

\* The number of features of a kind, and the caps as the specification states them
CountOfKind(fs, k) == Cardinality({i \in DOMAIN fs : fs[i].shapeType = k})

StatedCap == [polygon |-> 10, rectangle |-> 5, circle |-> 5, line |-> 20]

\* C5 as stated: in every reachable state of the store shapeCounts[k] is the
\* number of features of kind k in the current features, for every kind k.
C5_CountsMatchFeatures ==
  \A k \in ShapeType : shapeCounts[k] = CountOfKind(features, k)

\* C6: an addFeature of a kind whose count equals the cap returns null and
\* leaves features, history and shapeCounts as they were; below the cap it
\* returns an id and appends exactly one feature of that kind.
C6_CapOnCreate ==
  [][last'.op = "addFeature" =>
       LET k == last'.arg.kind
       IN /\ CountOfKind(features, k) = StatedCap[k] =>
               /\ ~last'.ok
               /\ features' = features
               /\ history' = history
               /\ shapeCounts' = shapeCounts
          /\ CountOfKind(features, k) < StatedCap[k] =>
               /\ last'.ok
               /\ Len(features') = Len(features) + 1
               /\ SubSeq(features', 1, Len(features)) = features
               /\ features'[Len(features')].shapeType = k]_vars

\* C6 happens: an addFeature was refused for a kind that is at its cap.
C6_Witness ==
  /\ last.op = "addFeature"
  /\ ~last.ok
  /\ CountOfKind(features, last.arg.kind) = StatedCap[last.arg.kind]
  /\ features = last.pre

\* C8 as stated: history.present is the current features in every reachable
\* state, and a mutating operation that succeeded has appended to past the
\* features that were current right before it.
C8_PresentIsFeatures ==
  /\ history.present = features
  /\ (last.op \in MutatingOps /\ last.ok) =>
       /\ Len(history.past) > 0
       /\ history.past[Len(history.past)] = last.pre

\* C9 as stated: an undo right after a mutating operation that succeeded
\* brings back the features that were current before that operation.
C9_UndoRevertsLastChange ==
  [][(last.op \in MutatingOps /\ last.ok /\ last'.op = "undo") =>
       features' = last.pre]_vars

C1_NoOverlap ==
  \A i \in DOMAIN features, j \in DOMAIN features :
    (/\ i < j
     /\ isPolygonalShape(features[i].shapeType)
     /\ isPolygonalShape(features[j].shapeType))
    => features[i].geometry.cells \cap features[j].geometry.cells = {}

\* C7: the current features never hold more features of a kind than the
\* kind's cap, whatever the handlers, the import button, undo, redo and
\* clear have done; an import leaves out the features that would go over.
C7_WithinCaps ==
  \A k \in ShapeType : CountOfKind(features, k) <= StatedCap[k]

\* C7 happens: a file of two lines was read with 19 lines in the store; the
\* first was committed and the second, over the cap, was left out.
C7_Witness ==
  /\ last.op = "onload"
  /\ last.arg.n = 2
  /\ CountOfKind(last.pre, "line") = StatedCap.line - 1
  /\ CountOfKind(features, "line") = StatedCap.line
  /\ Len(features) = Len(last.pre) + 1

\* C11: right after a mutating operation that succeeded (add, update, remove,
\* clear, import, setFeatures) future is empty, however many undos came
\* before it, so a redo there changes nothing.
C11_LinearHistory ==
  (last.op \in MutatingOps /\ last.ok) =>
    /\ history.future = <<>>
    /\ redo(App.st) = App.st

\* C11 happens: a mutating operation succeeded right after an undo of a
\* store that had 49 snapshots in past (the undo took one away and ended the
\* run of pushes, the operation put one back).
C11_Witness ==
  /\ last.op \in MutatingOps
  /\ last.ok
  /\ run = 1
  /\ Len(history.past) = 49
  /\ history.future = <<>>

\* C12: an undo with an empty past and a redo with an empty future change
\* neither features nor history (past, present, future) nor shapeCounts nor
\* the selection.
C12_EmptyUndoRedoAreNoOps ==
  [][(\/ last'.op = "undo" /\ Len(history.past) = 0
      \/ last'.op = "redo" /\ Len(history.future) = 0) =>
       /\ features' = features
       /\ history' = history
       /\ shapeCounts' = shapeCounts
       /\ selectedFeatureId' = selectedFeatureId]_vars

\* C12 happens: an undo was called on a store with features, a selection and
\* an empty past.
C12_Witness ==
  /\ last.op = "undo"
  /\ ~last.ok
  /\ Len(history.past) = 0
  /\ features # <<>>
  /\ features = last.pre
  /\ selectedFeatureId # NoId

\* undo, and redo, called k times in a row
RECURSIVE Undos(_, _)
Undos(st, k) == IF k = 0 THEN st ELSE Undos(undo(st), k - 1)

RECURSIVE Redos(_, _)
Redos(st, k) == IF k = 0 THEN st ELSE Redos(redo(st), k - 1)

SameTimeline(a, b) ==
  /\ a.features = b.features
  /\ a.history.past = b.history.past
  /\ a.history.future = b.history.future

\* C13 as stated: with a non-empty past undo then redo restores features,
\* past and future; with a non-empty future redo then undo restores them;
\* and with a non-empty past the features after k undos followed by k redos
\* are those before the first undo, for every k.
C13_UndoRedoInverse ==
  /\ Len(history.past) > 0 => SameTimeline(redo(undo(App.st)), App.st)
  /\ Len(history.future) > 0 => SameTimeline(undo(redo(App.st)), App.st)
  /\ Len(history.past) > 0 =>
       \A k \in 1..MaxUndos : Redos(Undos(App.st, k), k).features = features

\* C13 amended: the same, with k undos and k redos only for k up to the
\* number of snapshots in past (an undo on an empty past does nothing, and
\* the redos then run ahead into the future that was there before).
C13_UndoRedoInverseWithinPast ==
  /\ Len(history.past) > 0 => SameTimeline(redo(undo(App.st)), App.st)
  /\ Len(history.future) > 0 => SameTimeline(undo(redo(App.st)), App.st)
  /\ \A k \in 1..MaxUndos :
       k <= Len(history.past) =>
         SameTimeline(Redos(Undos(App.st, k), k), App.st)

\* C13 happens: undos and a redo have left a store with snapshots on both
\* sides, at least MaxUndos of them in past.
C13_Witness ==
  /\ last.op = "redo"
  /\ last.ok
  /\ Len(history.past) >= MaxUndos
  /\ Len(history.future) > 0
  /\ undo(App.st).features # features

\* ---------------------------------------------------------------------------
\* C14: removeFeature(id) with an id that is not in the current features
\* changes nothing: features, past, future, shapeCounts and the selection are
\* those before the call, so no history entry is pushed and a pending redo
\* stays available.
C14_RemoveAbsentChangesNothing ==
  [][(last'.op = "removeFeature" /\ ~last'.ok) =>
       /\ features' = features
       /\ history'.past = history.past
       /\ history'.future = history.future
       /\ shapeCounts' = shapeCounts
       /\ selectedFeatureId' = selectedFeatureId]_vars

\* ---------------------------------------------------------------------------
\* C15: updateFeature(id, geometry) with an id that is not in the current
\* features changes nothing: features, past, future and shapeCounts are those
\* before the call.
C15_UpdateAbsentChangesNothing ==
  [][(last'.op = "updateFeature" /\ ~last'.ok) =>
       /\ features' = features
       /\ history'.past = history.past
       /\ history'.future = history.future
       /\ shapeCounts' = shapeCounts]_vars

\* An update with an absent id has run while a redo was pending
C15_Witness ==
  /\ last.op = "updateFeature"
  /\ ~last.ok
  /\ \A i \in DOMAIN features : features[i].id # last.arg.id
  /\ Len(history.future) > 0

\* ---------------------------------------------------------------------------
\* C16: updateFeature(id, geometry) for an id in the current features replaces
\* only that feature's geometry and derived metadata: the feature keeps its
\* id, kind, name and position, every other feature is unchanged, the number
\* of features and shapeCounts are unchanged, and exactly one history entry is
\* pushed.
OnePush(before, after) ==
  /\ Len(after) > 0
  /\ IF Len(before) < MAX_HISTORY_LENGTH
     THEN after = Append(before, after[Len(after)])
     ELSE after = Append(Tail(before), after[Len(after)])

Without(fs, id) ==
  LET other(f) == f.id # id IN SelectSeq(fs, other)

C17_RemoveEffect ==
  [][(last'.op = "removeFeature" /\ last'.ok) =>
       LET id == last'.arg.id
           removed == CHOOSE f \in {features[i] : i \in DOMAIN features} : f.id = id
       IN /\ features' = Without(features, id)
          /\ Len(features') = Len(features) - 1
          /\ shapeCounts' = [shapeCounts EXCEPT ![removed.shapeType] = @ - 1]
          /\ selectedFeatureId' = (IF selectedFeatureId = id THEN NoId
                                   ELSE selectedFeatureId)
          /\ OnePush(history.past, history'.past)]_vars

\* ---------------------------------------------------------------------------
\* C18: clearFeatures empties the current features, sets the counter of every
\* kind to 0, sets the selection to none and pushes exactly one history entry,
\* which holds the collection that was current before the clear.
C18_ClearEffect ==
  [][(last'.op = "clearFeatures") =>
       /\ features' = <<>>
       /\ \A t \in ShapeType : shapeCounts'[t] = 0
       /\ selectedFeatureId' = NoId
       /\ OnePush(history.past, history'.past)
       /\ history'.past[Len(history'.past)] = features]_vars

\* ---------------------------------------------------------------------------
\* C19: an import that accepts k >= 1 features appends all k to the end of the
\* current features in file order and adds exactly one entry to past, so that
\* a single undo removes all k imported features at once; an import that
\* accepts no feature changes neither features nor history.
Appended(before, after) == SubSeq(after, Len(before) + 1, Len(after))

\* added[j] was made from file[idx[j]]
MadeFrom(added, file, idx) ==
  \A j \in DOMAIN added :
    /\ added[j].shapeType = detectShapeType(file[idx[j]].geometry)
    /\ \/ added[j].geometry = file[idx[j]].geometry
       \/ /\ added[j].shapeType # "line"
          /\ added[j].geometry.cells \subseteq file[idx[j]].geometry.cells

InFileOrder(added, file) ==
  \E idx \in [DOMAIN added -> DOMAIN file] :
    /\ \A a, b \in DOMAIN added : a < b => idx[a] < idx[b]
    /\ MadeFrom(added, file, idx)

C19_ImportIsOneStep ==
  [][(last'.op = "onload") =>
       IF last'.ok
       THEN /\ Len(features') > Len(features)
            /\ SubSeq(features', 1, Len(features)) = features
            /\ InFileOrder(Appended(features, features'), pendingImport.file)
            /\ OnePush(history.past, history'.past)
            /\ LET after == undo(App'.st)
               IN \A j \in (Len(features) + 1)..Len(features') :
                    \A i \in DOMAIN after.features :
                      after.features[i].id # features'[j].id
       ELSE /\ features' = features
            /\ history' = history]_vars

\* A file of two features has been imported whole into a store that held
\* features already
C19_Witness ==
  /\ last.op = "onload"
  /\ last.ok
  /\ Len(last.pre) > 0
  /\ Len(features) = Len(last.pre) + 2
  /\ features[Len(features)].shapeType # features[Len(features) - 1].shapeType

\* ---------------------------------------------------------------------------
\* C20: during one import every polygonal feature of the file is validated
\* against the features accepted before it from the same file: a polygon of
\* the file that shares area with a polygon accepted earlier from the same
\* file is skipped or trimmed, never committed with the geometry of the file.
C20_ImportValidatesAgainstAccepted ==
  [][(last'.op = "onload") =>
       \A a, b \in (Len(features) + 1)..Len(features') :
         (/\ a < b
          /\ isPolygonalShape(features'[a].shapeType)
          /\ isPolygonalShape(features'[b].shapeType)
          /\ \E i \in DOMAIN pendingImport.file :
               pendingImport.file[i].geometry = features'[b].geometry)
         => features'[a].geometry.cells \cap features'[b].geometry.cells = {}]_vars

\* ---------------------------------------------------------------------------
\* C21: the engine never lets a raw failure escape: for every candidate and
\* every stored feature set, malformed rings included, validatePolygonOverlap
\* returns a result value, and when the normalization of the candidate fails
\* that value is a rejection with an error message.
C21_NoRawFailure ==
  probe.called =>
    /\ ~IsRaised(probe.overlap)
    /\ probe.geometry = BadRing =>
         /\ probe.overlap.isValid = FALSE
         /\ probe.overlap.error # Undefined

\* ---------------------------------------------------------------------------
\* C22: idempotence. In every reachable state, validating the same geometry
\* (same kind, same exclusion id) twice in a row against the unchanged
\* features gives the same outcome, the same error and the same trimmed
\* geometry, through validateNewPolygon and through validateEditedPolygon,
\* whether or not a call is served from the cache.
NewTwice(geometry, shapeType) ==
  \A r1 \in Recent(drawCache, geometry, NoId, features) :
    LET first == validateNewPolygon(features, drawCache, geometry, shapeType, r1)
    IN \A r2 \in Recent(first.cache, geometry, NoId, features) :
         validateNewPolygon(features, first.cache, geometry, shapeType, r2).result
           = first.result

EditedTwice(geometry, shapeType, featureId) ==
  \A r1 \in Recent(drawCache, geometry, featureId, features) :
    LET first == validateEditedPolygon(features, drawCache, geometry, shapeType,
                                       featureId, r1)
    IN \A r2 \in Recent(first.cache, geometry, featureId, features) :
         validateEditedPolygon(features, first.cache, geometry, shapeType,
                               featureId, r2).result
           = first.result

C22_Idempotent ==
  \A cells \in DrawCells :
    /\ NewTwice(PolygonGeometry(cells), "polygon")
    /\ \A i \in DOMAIN features :
         isPolygonalShape(features[i].shapeType) =>
           EditedTwice(PolygonGeometry(cells), features[i].shapeType, features[i].id)

C24_ExportVerbatim ==
  LET exported == createFeatureCollection(features).features
  IN /\ Len(exported) = Len(features)
     /\ \A i \in DOMAIN features :
          /\ exported[i].geometry = features[i].geometry
          /\ exported[i].properties.id = features[i].id
          /\ exported[i].properties.shapeType = features[i].shapeType
          /\ exported[i].properties.name = features[i].properties.name
          /\ exported[i].properties.area = features[i].properties.area
          /\ exported[i].properties.length = features[i].properties.length

\* ---------------------------------------------------------------------------
\* C25: hard stop and tie-break. The compared features are taken in insertion
\* order against the running polygon, which is the candidate less the
\* features before; the first feature whose shared area is over 0.99 of the
\* running polygon's area or over 0.99 of its own makes the result a
\* rejection without trimmed geometry, whatever follows and whatever was
\* trimmed before; the reason is 'fully contained' when the first ratio is
\* over 0.99, also when both are, as for a candidate identical to a feature.
RunningCells(i) ==
  probe.geometry.cells \
    UNION {probe.features[j].geometry.cells :
             j \in {k \in Compared(probe.features, probe.excludeId) : k < i}}

SharedAt(i) == SumArea(RunningCells(i) \cap probe.features[i].geometry.cells)

InsideAt(i) == SharedAt(i) > 0 /\ 100 * SharedAt(i) > 99 * SumArea(RunningCells(i))

SwallowsAt(i) ==
  SharedAt(i) > 0 /\ 100 * SharedAt(i) > 99 * SumArea(probe.features[i].geometry.cells)

FirstHit(i) ==
  /\ i \in Compared(probe.features, probe.excludeId)
  /\ InsideAt(i) \/ SwallowsAt(i)
  /\ \A j \in Compared(probe.features, probe.excludeId) :
       j < i => ~(InsideAt(j) \/ SwallowsAt(j))

C25_HardStop ==
  PolygonProbe =>
    /\ \A i \in DOMAIN probe.features :
         FirstHit(i) =>
           /\ ~probe.overlap.isValid
           /\ NoTrimmedGeometry(probe.overlap)
           /\ probe.overlap.error = (IF InsideAt(i) THEN ErrContained ELSE ErrContains)
    /\ (\E i \in Compared(probe.features, probe.excludeId) :
          /\ probe.features[i].geometry = probe.geometry
          /\ \A j \in Compared(probe.features, probe.excludeId) : j >= i)
       => probe.overlap = Rejected(ErrContained)

\* A candidate trimmed by the first feature is rejected at the second one,
\* which swallows what the trim has left but not the candidate as drawn
C25_Witness ==
  /\ PolygonProbe
  /\ Len(probe.features) = 2
  /\ Compared(probe.features, probe.excludeId) = {1, 2}
  /\ SharedAt(1) > 0
  /\ ~FirstHit(1)
  /\ FirstHit(2)
  /\ 100 * SumArea(probe.geometry.cells \cap probe.features[2].geometry.cells)
       <= 99 * SumArea(probe.geometry.cells)
  /\ ~probe.overlap.isValid

C27_PositiveArea ==
  (PolygonProbe /\ SumArea(probe.geometry.cells) > 0) =>
    /\ probe.overlap.isValid =>
         SumArea(Outcome(probe.overlap, probe.geometry).cells) > 0
    /\ (\E i \in Compared(probe.features, probe.excludeId) :
          /\ RunningCells(i) # {}
          /\ RunningCells(i) \subseteq probe.features[i].geometry.cells)
       => ~probe.overlap.isValid
    /\ Len(probe.created) = Len(probe.features) + 1 =>
         LET committed == probe.created[Len(probe.created)]
         IN /\ SumArea(committed.geometry.cells) > 0
            /\ committed.properties.area = {SumArea(committed.geometry.cells)}

\* A drawn polygon is trimmed twice, by two features reaching into it, and
\* what is left of it is committed
C27_Witness ==
  /\ PolygonProbe
  /\ probe.overlap.isValid
  /\ Len(probe.features) = 2
  /\ \A i \in {1, 2} :
       /\ isPolygonalShape(probe.features[i].shapeType)
       /\ SharedAt(i) > 0
  /\ Len(probe.created) = 3
  /\ SumArea(probe.created[3].geometry.cells) < SumArea(probe.geometry.cells)

\* ---------------------------------------------------------------------- C28
\* What a handler can commit: the features, both sides of the history and the
\* counters.
Committed(app) ==
  <<app.st.features, app.st.history.past, app.st.history.future, app.st.shapeCounts>>

\* handleCreated is turned away at the cap or by the verdict of its hook
CreateRejected(layerType, cells, recent) ==
  LET shapeType == mapLayerTypeToShapeType(layerType)
      verdict == validateNewPolygon(features, drawCache,
                                    extractGeometryFromLayer(layerType, cells),
                                    shapeType, recent).result
  IN \/ ~canAddFeature(features, shapeType)
     \/ isPolygonalShape(shapeType) /\ ~IsRaised(verdict) /\ ~verdict.isValid

\* The events handleEdited is called with in the current state
EditEvents ==
  {e \in UNION {[edits : [1..k -> [layer : layerToFeatureMap, cells : DrawCells]],
                 recents : [1..k -> BOOLEAN]] : k \in 1..MaxEditLayers} :
     /\ Distinct([i \in DOMAIN e.edits |-> e.edits[i].layer])
     /\ \A i \in DOMAIN e.edits :
          /\ HasFeature(features, e.edits[i].layer)
          /\ e.recents[i] \in Recent(drawCache,
                                     extractGeometryFromLayer("polygon", e.edits[i].cells),
                                     e.edits[i].layer, features)}

\* The verdict the hook gives on layer i of an event. The hook reads the
\* features of the render; the layers of an event have different ids, so no
\* earlier layer of the event has written the cache entry this one reads.
EditVerdict(e, i) ==
  LET feature == FindFeature(features, e.edits[i].layer)
  IN validateEditedPolygon(features, drawCache,
                           extractGeometryFromLayer(LayerTypeOf(feature.shapeType),
                                                    e.edits[i].cells),
                           feature.shapeType, e.edits[i].layer, e.recents[i]).result

EditRejected(e, i) ==
  /\ isPolygonalShape(FindFeature(features, e.edits[i].layer).shapeType)
  /\ ~IsRaised(EditVerdict(e, i))
  /\ ~EditVerdict(e, i).isValid

KeepsGeometry(app, id) ==
  /\ HasFeature(app.st.features, id)
  /\ FindFeature(app.st.features, id).geometry = FindFeature(features, id).geometry

\* C28 as stated: in every state the handlers run from, whenever
\* handleCreated or handleEdited receives a rejection, features, past, future
\* and shapeCounts are after the handler what they were before it, and a
\* rejected edit leaves the feature its geometry.
C28_RejectionCommitsNothing ==
  ops < MaxOps =>
  /\ \A layerType \in LayerTypes, cells \in DrawCells :
       \A recent \in Recent(drawCache, extractGeometryFromLayer(layerType, cells),
                            NoId, features) :
         CreateRejected(layerType, cells, recent)
           => Committed(handleCreated(App, layerType, cells, recent)) = Committed(App)
  /\ \A e \in EditEvents :
       \A i \in DOMAIN e.edits :
         EditRejected(e, i)
           => /\ Committed(handleEdited(App, e.edits, e.recents)) = Committed(App)
              /\ KeepsGeometry(handleEdited(App, e.edits, e.recents), e.edits[i].layer)

\* C28, per layer, in every state the handlers run from: a rejected creation
\* commits nothing; an edit event all of whose layers are rejected commits
\* nothing; and every rejected layer of an edit event leaves its feature the
\* geometry it had, whatever the other layers of the event do.
C28_RejectedLayerCommitsNothing ==
  ops < MaxOps =>
  /\ \A layerType \in LayerTypes, cells \in DrawCells :
       \A recent \in Recent(drawCache, extractGeometryFromLayer(layerType, cells),
                            NoId, features) :
         CreateRejected(layerType, cells, recent)
           => Committed(handleCreated(App, layerType, cells, recent)) = Committed(App)
  /\ \A e \in EditEvents :
       /\ (\A i \in DOMAIN e.edits : EditRejected(e, i))
            => Committed(handleEdited(App, e.edits, e.recents)) = Committed(App)
       /\ \A i \in DOMAIN e.edits :
            EditRejected(e, i)
              => KeepsGeometry(handleEdited(App, e.edits, e.recents), e.edits[i].layer)

\* The handlers run from a state where a drawing is rejected for its overlap,
\* below the cap, and where an edit event of two layers has one layer
\* rejected and the other accepted.
C28_Witness ==
  /\ ops < MaxOps
  /\ canAddFeature(features, "polygon")
  /\ \E cells \in DrawCells :
       /\ CreateRejected("polygon", cells, FALSE)
       /\ Committed(handleCreated(App, "polygon", cells, FALSE)) = Committed(App)
  /\ \E e \in EditEvents :
       /\ Len(e.edits) = 2
       /\ \E i, j \in DOMAIN e.edits : EditRejected(e, i) /\ ~EditRejected(e, j)

\* ---------------------------------------------------------------------- C29
CacheKeys(cache) == [i \in 1..Len(cache) |-> cache[i].key]

\* The entries a step drops from a cache are its oldest: the keys that stay
\* are a final part of the old keys and come first, in their order, after it.
OldestDropped(before, after) ==
  \E n \in 0..Len(before) :
    /\ Len(after) >= Len(before) - n
    /\ SubSeq(CacheKeys(after), 1, Len(before) - n)
         = SubSeq(CacheKeys(before), n + 1, Len(before))

\* C29: the validation cache of a hook never holds more than 100 entries,
\* whatever series of validateNewPolygon and validateEditedPolygon calls the
\* handlers make, and the entries it loses are the oldest inserted ones.
C29_CacheBounded ==
  [][/\ Len(drawCache') <= 100
     /\ Len(importCache') <= 100
     /\ OldestDropped(drawCache, drawCache')
     /\ OldestDropped(importCache, importCache')]_vars

\* ---------------------------------------------------------------------- C30
\* C30: every polygonal feature of the current features carries the area of
\* its stored geometry and every line the length of its stored geometry,
\* however it came into the store: drawn, edited or imported.
C30_MetadataFollowsGeometry ==
  \A i \in DOMAIN features :
    LET f == features[i]
    IN IF f.shapeType = "line"
       THEN f.properties.length = {calculateLength(f.geometry)}
       ELSE f.properties.area = {calculateArea(f.geometry)}

\* ---------------------------------------------------------------------- C31
\* A name a caller passes in the extra properties of addFeature
CallerName == <<"Mine", "", 0>>

\* C31: a feature added without a name of the caller's is named
\* '<Kind>-<n+1>', n being the number of features of its kind in the features
\* right before the insertion; with a name among the caller's extra
\* properties the feature carries that name.
C31_SequentialName ==
  [][last'.op = "addFeature" =>
       LET kind == last'.arg.kind
           n == Cardinality({i \in DOMAIN features : features[i].shapeType = kind})
           named == addFeature(App.st, StoreGeometry(kind), kind, {CallerName}, nextId)
       IN /\ last'.ok =>
               /\ Len(features') = Len(features) + 1
               /\ features'[Len(features')].properties.name
                    = {<<"", Capitalized(kind), n + 1>>}
          /\ named.id # NoId =>
               named.st.features[Len(named.st.features)].properties.name = {CallerName}]_vars

\* A polygon was added to a store that held polygons already, and to an
\* empty store.
C31_Witness ==
  /\ last.op = "addFeature" /\ last.ok /\ last.arg.kind = "polygon"
  /\ Len(last.pre) > 0
  /\ \E i \in DOMAIN features :
       features[i].properties.name = {<<"", "Polygon", 1>>}
  /\ \E k \in 2..shapeLimits.polygon :
       features[Len(features)].properties.name = {<<"", "Polygon", k>>}

\* ---------------------------------------------------------------------- C32
\* No two polygonal features of fs share a cell
PairwiseApart(fs) ==
  \A i, j \in DOMAIN fs :
    (i # j /\ isPolygonalShape(fs[i].shapeType) /\ isPolygonalShape(fs[j].shapeType))
      => fs[i].geometry.cells \cap fs[j].geometry.cells = {}

UnchangedEditAccepted(hookFeatures, cache, f, recent) ==
  LET result == validateEditedPolygon(hookFeatures, cache, f.geometry, f.shapeType,
                                      f.id, recent).result
  IN /\ ~IsRaised(result)
     /\ result.isValid
     /\ ~HasTrimmed(result)

\* C32: in a store whose polygonal features are pairwise apart, the hook of
\* the map accepts, untrimmed, the edit of a polygonal feature to the geometry
\* it has, and the engine rejects that geometry when the feature is not
\* excluded.
C32_UnchangedEditAccepted ==
  PairwiseApart(features) =>
    \A i \in DOMAIN features :
      isPolygonalShape(features[i].shapeType) =>
        /\ \A recent \in Recent(drawCache, features[i].geometry, features[i].id, features) :
             UnchangedEditAccepted(features, drawCache, features[i], recent)
        /\ ~validatePolygonOverlap(features[i].geometry, features, NoId).isValid

\* ---------------------------------------------------------------------- C33
\* The orderings of a sequence
Orderings(fs) ==
  {[i \in DOMAIN fs |-> fs[p[i]]] :
     p \in {q \in [DOMAIN fs -> DOMAIN fs] : \A i, j \in DOMAIN fs : i # j => q[i] # q[j]}}

\* The result of the engine for the probe's candidate against the probe's
\* features in the order fs
Reordered(fs) == validatePolygonOverlap(probe.geometry, fs, probe.excludeId)

\* C33 as stated: against stored polygons that lie apart, every ordering of
\* the stored features gives the same accept/reject outcome and, on
\* acceptance, the same geometry and trimmed flag.
C33_OrderIndependent ==
  probe.called =>
    \A fs \in Orderings(probe.features) :
      /\ Reordered(fs).isValid = probe.overlap.isValid
      /\ probe.overlap.isValid => Reordered(fs).trimmedGeometry = probe.overlap.trimmedGeometry

\* C33, for the orderings that accept: against stored polygons that lie
\* apart, any two orderings that accept return the same geometry and trimmed
\* flag, and when one ordering accepts, an ordering that rejects rejects the
\* candidate as fully contained (the ratio is taken against the candidate as
\* trimmed so far).
C33_AcceptingOrdersAgree ==
  (probe.called /\ probe.overlap.isValid) =>
    \A fs \in Orderings(probe.features) :
      IF Reordered(fs).isValid
      THEN Reordered(fs).trimmedGeometry = probe.overlap.trimmedGeometry
      ELSE Reordered(fs).error = ErrContained

\* A candidate trimmed by two stored polygons and accepted in either order
C33_Witness ==
  /\ probe.called /\ probe.overlap.isValid /\ HasTrimmed(probe.overlap)
  /\ Len(probe.features) = 2
  /\ probe.excludeId = NoId
  /\ \A i \in 1..2 : probe.features[i].geometry.cells \cap probe.geometry.cells # {}
  /\ \A fs \in Orderings(probe.features) : Reordered(fs).isValid

\* ---------------------------------------------------------------------- C34
\* C34: whatever the hook of the map holds in its cache, validateNewPolygon
\* and validateEditedPolygon return what validatePolygonOverlap returns for
\* the same geometry and exclusion id against the store's features at the
\* time of the call.
C34_CacheCoherent ==
  \A cells \in DrawCells :
    LET geometry == PolygonGeometry(cells)
    IN /\ \A recent \in Recent(drawCache, geometry, NoId, features) :
            validateNewPolygon(features, drawCache, geometry, "polygon", recent).result
              = validatePolygonOverlap(geometry, features, NoId)
       /\ \A i \in DOMAIN features :
            isPolygonalShape(features[i].shapeType) =>
              \A recent \in Recent(drawCache, geometry, features[i].id, features) :
                validateEditedPolygon(features, drawCache, geometry,
                                      features[i].shapeType, features[i].id, recent).result
                  = validatePolygonOverlap(geometry, features, features[i].id)

\* ---------------------------------------------------------------------- C35
\* C35: the selection is none or the id of a feature of the current features.
C35_SelectionIsLive ==
  selectedFeatureId = NoId \/ HasFeature(features, selectedFeatureId)

\* ---------------------------------------------------------------------- C36
\* C36: no two features of one kind in the current features carry the same
\* name, after any series of addFeature and removeFeature calls.
C36_NamesUnique ==
  \A i, j \in DOMAIN features :
    (i # j /\ features[i].shapeType = features[j].shapeType)
      => features[i].properties.name # features[j].properties.name

\* ---------------------------------------------------------------------- C37
\* C37: when the store's features have changed between the selection of a
\* file and the end of its read, the import commits against the store as it
\* is at the end of the read: the features of that store stay, in their
\* order, before the imported ones; no kind exceeds its cap by the import;
\* and no imported polygon shares a cell with a polygon of that store.
C37_ImportAgainstCurrentStore ==
  [][(last'.op = "onload" /\ features # pendingImport.hookFeatures) =>
       /\ Len(features') >= Len(features)
       /\ SubSeq(features', 1, Len(features)) = features
       /\ \A shapeType \in ShapeType :
            getFeatureCount(features', shapeType) > getFeatureCount(features, shapeType)
              => getFeatureCount(features', shapeType) <= shapeLimits[shapeType]
       /\ \A i \in (Len(features) + 1)..Len(features') :
            isPolygonalShape(features'[i].shapeType) =>
              \A j \in DOMAIN features :
                isPolygonalShape(features[j].shapeType) =>
                  features'[i].geometry.cells \cap features[j].geometry.cells = {}]_vars

====
